---- MODULE Spec2Model ----
(***************************************************************************)
(* Model of jobfunnel/backend/scrapers/indeed.py: BaseIndeedScraper.scrape *)
(* (first page, page count, page-fetch pool, join, extraction loop,        *)
(* aggregation) and the pure helpers convert_radius and                    *)
(* get_num_pages_to_scrape.                                                *)
(***************************************************************************)
EXTENDS Bags, FiniteSets, Integers, Sequences, TLC

\* ------------------------------------------------------------------ bounds
\* Largest page count the modelled site announces.
MaxPages == 2
\* Largest radius handed to convert_radius.
MaxRadius == 120
\* Largest result count handed to get_num_pages_to_scrape.
MaxTotal == 260
\* Largest max_pages cap handed to get_num_pages_to_scrape.
MaxCap == 6

\* -------------------------------------------------------- program constants
\* self.max_results_per_page = 50
max_results_per_page == 50
\* ThreadPoolExecutor(max_workers=8)
max_workers == 8

\* Python's None where the value is otherwise a string.
None == "None"

\* ------------------------------------------------------ exceptions, results
Ok(v) == [exc |-> "none", val |-> v]
Raise(e, v) == [exc |-> e, val |-> v]

\* ------------------------------------------------------- listing fragments
\* One 'organicJob' div as bs4 sees it.  title, company, location, date:
\* the stripped text of the element, or None when soup.find returns None.
\* link: the save-job-link anchor, with the matches the id regex finds in
\* its html.  tags: the shelf table, with the text of its shelf items.
Anchor(ids) == [present |-> TRUE, ids |-> ids]
NoAnchor == [present |-> FALSE, ids |-> <<>>]
Shelf(items) == [present |-> TRUE, items |-> items]
NoShelf == [present |-> FALSE, items |-> <<>>]

Frag(t, c, l, a, g, d) ==
    [title |-> t, company |-> c, location |-> l, link |-> a, tags |-> g, date |-> d]

F_a1 == Frag("Dev", "Acme", "Toronto", Anchor(<<"a">>), Shelf(<<"new">>), "today")
F_a2 == Frag("Ops", "Bolt", "Ottawa", Anchor(<<"a">>), NoShelf, "last Tuesday-ish")
F_b == Frag("Dev", "Acme", "Toronto", Anchor(<<"b">>), Shelf(<<"new", "remote">>), None)
F_c == Frag("QA", "Core", "Guelph", Anchor(<<"c">>), NoShelf, "3 days ago")
F_d == Frag("PM", "Dyne", "Barrie", Anchor(<<"d">>), NoShelf, None)
F_notitle == Frag(None, "Acme", "Toronto", Anchor(<<"e">>), Shelf(<<"new">>), "today")
F_nocompany == Frag("Dev", None, "Toronto", Anchor(<<"e">>), Shelf(<<"new">>), "today")
F_nolocation == Frag("Dev", "Acme", None, Anchor(<<"e">>), Shelf(<<"new">>), "today")
F_nolink == Frag("Dev", "Acme", "Toronto", NoAnchor, Shelf(<<"new">>), "today")
F_noid == Frag("Dev", "Acme", "Toronto", Anchor(<<>>), Shelf(<<"new">>), "30+ days ago")

\* The result pages the modelled site can serve (each in listing order).
PageMenu ==
    { <<>>,
      <<F_a1, F_notitle>>,
      <<F_b, F_c>>,
      <<F_a2, F_nocompany>>,
      <<F_nolocation, F_d>>,
      <<F_nolink, F_c>>,
      <<F_a1, F_noid>>,
      <<F_a2, F_a1>> }

\* -------------------------------------------------------------- extractors
\* soup.find(...).text.strip(): AttributeError when find returns None.
TextOf(e) == IF e = None THEN Raise("AttributeError", None) ELSE Ok(e)

\* get_title without the failure on a missing element.
get_title_lenient(soup) == Ok(soup.title)

get_title(soup) == TextOf(soup.title)

get_company(soup) == TextOf(soup.company)

get_location(soup) == TextOf(soup.location)

get_date(soup) == TextOf(soup.date)

get_tags(soup) ==
    IF soup.tags.present THEN Ok(soup.tags.items) ELSE Raise("AttributeError", <<>>)

\* id_regex.findall(str(soup.find('a', ...))): str(None) is "None", in
\* which the regex matches nothing.
FindAllIds(a) == IF a.present THEN a.ids ELSE <<>>

\* id_regex.findall(...)[0]: IndexError on an empty list of matches.
get_id(soup) ==
    LET found == FindAllIds(soup.link)
    IN  IF Len(found) = 0 THEN Raise("IndexError", None) ELSE Ok(found[1])

get_link(job_id) == [path |-> "/viewjob", jk |-> job_id]

\* convert_radius with the 15 bucket's upper boundary included in it.
convert_radius_off_by_one(radius) ==
    IF radius < 5 THEN 0
    ELSE IF 5 <= radius /\ radius < 10 THEN 5
    ELSE IF 10 <= radius /\ radius < 15 THEN 10
    ELSE IF 15 <= radius /\ radius <= 25 THEN 15
    ELSE IF 25 <= radius /\ radius < 50 THEN 25
    ELSE IF 50 <= radius /\ radius < 100 THEN 50
    ELSE IF radius >= 100 THEN 100
    ELSE radius

\* convert_radius with 100 left in the 50 bucket.
convert_radius_hundred_in_fifty(radius) ==
    IF radius < 5 THEN 0
    ELSE IF 5 <= radius /\ radius < 10 THEN 5
    ELSE IF 10 <= radius /\ radius < 15 THEN 10
    ELSE IF 15 <= radius /\ radius < 25 THEN 15
    ELSE IF 25 <= radius /\ radius < 50 THEN 25
    ELSE IF 50 <= radius /\ radius <= 100 THEN 50
    ELSE IF radius > 100 THEN 100
    ELSE radius

\* ----------------------------------------------------------- convert_radius
convert_radius(radius) ==
    IF radius < 5 THEN 0
    ELSE IF 5 <= radius /\ radius < 10 THEN 5
    ELSE IF 10 <= radius /\ radius < 15 THEN 10
    ELSE IF 15 <= radius /\ radius < 25 THEN 15
    ELSE IF 25 <= radius /\ radius < 50 THEN 25
    ELSE IF 50 <= radius /\ radius < 100 THEN 50
    ELSE IF radius >= 100 THEN 100
    ELSE radius

\* -------------------------------------------------- get_num_pages_to_scrape
\* Floor division in place of the ceiling.
FloorDiv(n, d) == n \div d

\* int(ceil(num_res / self.max_results_per_page))
CeilDiv(n, d) == IF n % d = 0 THEN n \div d ELSE (n \div d) + 1

\* After the count has been parsed: lines 249-255.
PagesFor(num_res, max_pages) ==
    LET number_of_pages == CeilDiv(num_res, max_results_per_page)
    IN  IF max_pages = 0 THEN number_of_pages
        ELSE IF number_of_pages < max_pages THEN number_of_pages
        ELSE max_pages

\* The first page's count marker: absent (find returns None), present with
\* text the regex does not match, or present with a count.
NoMarker == [present |-> FALSE, counts |-> <<>>]
Marker(counts) == [present |-> TRUE, counts |-> counts]

\* get_num_pages_to_scrape falling back to one page without a usable marker.
get_num_pages_or_one(soup_base, max_pages) ==
    IF ~soup_base.present THEN Ok(1)
    ELSE IF Len(soup_base.counts) = 0 THEN Ok(1)
    ELSE Ok(PagesFor(soup_base.counts[1], max_pages))

get_num_pages_to_scrape(soup_base, max_pages) ==
    IF ~soup_base.present THEN Raise("AttributeError", 0)
    ELSE IF Len(soup_base.counts) = 0 THEN Raise("IndexError", 0)
    ELSE Ok(PagesFor(soup_base.counts[1], max_pages))

\* get_search_url building the url whatever the method.
get_search_url_any_method(terms, method) ==
    Ok([radius |-> convert_radius(terms.radius),
        limit |-> max_results_per_page])

\* ----------------------------------------------------------- get_search_url
\* IndeedScraperCAEng.get_search_url / IndeedScraperUSAEng.get_search_url:
\* the url is the query string built from the search terms.
get_search_url(terms, method) ==
    IF method = "get"
    THEN Ok([radius |-> convert_radius(terms.radius),
             limit |-> max_results_per_page])
    ELSE IF method = "post" THEN Raise("NotImplementedError", [radius |-> 0, limit |-> 0])
    ELSE Raise("ValueError", [radius |-> 0, limit |-> 0])

\* A requested url: the search url, with '&start=<n>' appended (start = <<n>>)
\* or bare (start = <<>>).
Url(base, start) == [base |-> base, start |-> start]

\* The offset of a one-based page number.
PageOffsetOneBased(page) == (page + 1) * max_results_per_page

\* int(page * self.max_results_per_page)
PageOffset(page) == page * max_results_per_page

\* ------------------------------------------------------------ date fix-up
EpochDate == "1970-01-01"

\* Job.set_post_date_from_relative_date: the absolute date for a relative
\* date text, ValueError for a text of no recognised form.
set_post_date_from_relative_date(post_date) ==
    IF post_date = "today" THEN Ok("now")
    ELSE IF post_date = "3 days ago" THEN Ok("now - 3 days")
    ELSE IF post_date = "30+ days ago" THEN Ok("now - 30 days")
    ELSE Raise("ValueError", post_date)

\* The handler without the assignment of the epoch date.
FixDateKeepsRaw(j) ==
    LET r == set_post_date_from_relative_date(j.post_date)
    IN  IF r.exc = "ValueError"
        THEN j
        ELSE [j EXCEPT !.post_date = r.val]

\* The handler of lines 130-136.
FixDate(j) ==
    LET r == set_post_date_from_relative_date(j.post_date)
    IN  IF r.exc = "ValueError"
        THEN [j EXCEPT !.post_date = EpochDate]
        ELSE [j EXCEPT !.post_date = r.val]

\* jobs_dict.setdefault(job.key_id, job): the first record of a key stays.
DictSetDefault(d, k, v) ==
    [x \in DOMAIN d \cup {k} |-> IF x \in DOMAIN d THEN d[x] ELSE v]

\* jobs_dict[job.key_id] = job
DictSet(d, k, v) == [x \in DOMAIN d \cup {k} |-> IF x = k THEN v ELSE d[x]]

EmptyDict == [x \in {} |-> x]

\* ------------------------------------------------------------------- state
VARIABLES
    search_terms,   \* self.search_terms (its radius)
    site,           \* what the listing source serves: count marker and pages
    pc,             \* where scrape() is
    err,            \* the exception that left scrape(), and the call raising it
    search,         \* local search
    soup_base,      \* local soup_base (its count marker)
    pages,          \* local pages
    fts,            \* local fts: the state of each submitted future
    requests,       \* bag of the urls passed to self.session.get
    job_soup_list,  \* local job_soup_list, shared with the pool's tasks
    idx,            \* fragments of job_soup_list the loop has finished with
    loc,            \* the loop body's locals
    job,            \* the loop body's job: <<>> or <<the Job>>
    jobs_dict,      \* local jobs_dict; the value returned when pc = "done"
    call,           \* pure-function harness: the call to make
    ret             \* pure-function harness: <<>> or <<the value returned>>

vars == <<search_terms, site, pc, err, search, soup_base, pages, fts, requests,
          job_soup_list, idx, loc, job, jobs_dict, call, ret>>

scrape_vars == <<search_terms, site, pc, err, search, soup_base, pages, fts,
                 requests, job_soup_list, idx, loc, job, jobs_dict>>

NoErr == [exc |-> "none", at |-> "none"]

\* Lines 77-79: the loop body's initial locals.
InitLoc == [title |-> None, company |-> None, location |-> None,
            key_id |-> None, url |-> get_link(None), tags |-> <<>>,
            post_date |-> None]

NoCall == [fn |-> "none", a |-> 0, b |-> 0]

\* The result counts the site can announce: page boundaries and one past.
TotalCounts == {n \in 0..(MaxPages * max_results_per_page) :
                    n % max_results_per_page <= 1}

Markers == {NoMarker, Marker(<<>>)} \cup {Marker(<<n>>) : n \in TotalCounts}

\* Pages the site is asked for under a marker.
Announced(m) ==
    LET r == get_num_pages_to_scrape(m, 0)
    IN  IF r.exc = "none" THEN r.val ELSE 0

Sites ==
    {s \in [marker : Markers, page : [0..(MaxPages - 1) -> PageMenu]] :
        \A p \in 0..(MaxPages - 1) : p >= Announced(s.marker) => s.page[p] = <<>>}

\* The state scrape() starts in, for given search terms and site.
ScrapeStart(terms, s) ==
    /\ search_terms = terms
    /\ site = s
    /\ pc = "get_search_url"
    /\ err = NoErr
    /\ search = [radius |-> 0, limit |-> 0]
    /\ soup_base = NoMarker
    /\ pages = 0
    /\ fts = <<>>
    /\ requests = EmptyBag
    /\ job_soup_list = <<>>
    /\ idx = 0
    /\ loc = InitLoc
    /\ job = <<>>
    /\ jobs_dict = EmptyDict

Init ==
    /\ \E terms \in {[radius |-> 7], [radius |-> 250]}, s \in Sites :
           ScrapeStart(terms, s)
    /\ call = NoCall
    /\ ret = <<>>

\* ------------------------------------------------------- scrape: lines 40-51
Abort(e, at) ==
    /\ pc' = "aborted"
    /\ err' = [exc |-> e, at |-> at]

\* search = self.get_search_url()
GetSearchUrl ==
    /\ pc = "get_search_url"
    /\ LET r == get_search_url(search_terms, "get")
       IN  IF r.exc = "none"
           THEN /\ search' = r.val
                /\ pc' = "session_get"
                /\ err' = err
           ELSE /\ Abort(r.exc, "get_search_url")
                /\ search' = search
    /\ UNCHANGED <<search_terms, site, soup_base, pages, fts, requests,
                   job_soup_list, idx, loc, job, jobs_dict, call, ret>>

\* request_html = self.session.get(search); soup_base = BeautifulSoup(...)
FirstGet ==
    /\ pc = "session_get"
    /\ requests' = requests (+) SetToBag({Url(search, <<>>)})
    /\ \/ /\ soup_base' = site.marker
          /\ pc' = "get_num_pages"
          /\ err' = err
       \/ /\ Abort("ConnectionError", "session_get")
          /\ soup_base' = soup_base
    /\ UNCHANGED <<search_terms, site, search, pages, fts, job_soup_list, idx,
                   loc, job, jobs_dict, call, ret>>

\* pages = self.get_num_pages_to_scrape(soup_base)
GetNumPages ==
    /\ pc = "get_num_pages"
    /\ LET r == get_num_pages_to_scrape(soup_base, 0)
       IN  IF r.exc = "none"
           THEN /\ pages' = r.val
                /\ pc' = "submit"
                /\ err' = err
           ELSE /\ Abort(r.exc, "get_num_pages_to_scrape")
                /\ pages' = pages
    /\ UNCHANGED <<search_terms, site, search, soup_base, fts, requests,
                   job_soup_list, idx, loc, job, jobs_dict, call, ret>>

\* ------------------------------------------------- the pool: lines 56-70
Finished(f) == f \in {"done", "failed"}

Running == {i \in 1..Len(fts) : fts[i] = "running"}

\* threads.submit(self.search_page_for_job_soups, search, page, job_soup_list)
\* for the next page of range(0, pages).
SubmitPage ==
    /\ pc = "submit"
    /\ Len(fts) < pages
    /\ fts' = Append(fts, "pending")
    /\ UNCHANGED <<search_terms, site, pc, err, search, soup_base, pages,
                   requests, job_soup_list, idx, loc, job, jobs_dict, call, ret>>

\* The task of page 0 reusing the first page already fetched: no request.
TaskStartReusesFirstPage(page) ==
    /\ page + 1 \in 1..Len(fts)
    /\ fts[page + 1] = "pending"
    /\ \A i \in 1..page : fts[i] # "pending"
    /\ Cardinality(Running) < max_workers
    /\ fts' = [fts EXCEPT ![page + 1] = "running"]
    /\ requests' = IF page = 0 THEN requests
                   ELSE requests (+) SetToBag({Url(search, <<PageOffset(page)>>)})
    /\ UNCHANGED <<search_terms, site, pc, err, search, soup_base, pages,
                   job_soup_list, idx, loc, job, jobs_dict, call, ret>>

\* A pool that starts a thread for every queued task, whatever its width.
TaskStartUnbounded(page) ==
    /\ page + 1 \in 1..Len(fts)
    /\ fts[page + 1] = "pending"
    /\ \A i \in 1..page : fts[i] # "pending"
    /\ fts' = [fts EXCEPT ![page + 1] = "running"]
    /\ requests' = requests (+) SetToBag({Url(search, <<PageOffset(page)>>)})
    /\ UNCHANGED <<search_terms, site, pc, err, search, soup_base, pages,
                   job_soup_list, idx, loc, job, jobs_dict, call, ret>>

\* A free worker takes the oldest queued task, which builds its url and
\* calls self.session.get(url): search_page_for_job_soups, lines 186-190.
TaskStart(page) ==
    /\ page + 1 \in 1..Len(fts)
    /\ fts[page + 1] = "pending"
    /\ \A i \in 1..page : fts[i] # "pending"
    /\ Cardinality(Running) < max_workers
    /\ fts' = [fts EXCEPT ![page + 1] = "running"]
    /\ requests' = requests (+) SetToBag({Url(search, <<PageOffset(page)>>)})
    /\ UNCHANGED <<search_terms, site, pc, err, search, soup_base, pages,
                   job_soup_list, idx, loc, job, jobs_dict, call, ret>>

\* The task storing its page's fragments over what the list held (a lost
\* update in place of the extend).
TaskRespondOverwrite(page) ==
    /\ page + 1 \in 1..Len(fts)
    /\ fts[page + 1] = "running"
    /\ job_soup_list' = site.page[page]
    /\ fts' = [fts EXCEPT ![page + 1] = "done"]
    /\ UNCHANGED <<search_terms, site, pc, err, search, soup_base, pages,
                   requests, idx, loc, job, jobs_dict, call, ret>>

\* The task extending the list with its page's fragments last first.
TaskRespondReversed(page) ==
    /\ page + 1 \in 1..Len(fts)
    /\ fts[page + 1] = "running"
    /\ job_soup_list' = job_soup_list \o
          [i \in 1..Len(site.page[page]) |->
              site.page[page][Len(site.page[page]) + 1 - i]]
    /\ fts' = [fts EXCEPT ![page + 1] = "done"]
    /\ UNCHANGED <<search_terms, site, pc, err, search, soup_base, pages,
                   requests, idx, loc, job, jobs_dict, call, ret>>

\* The response arrives: job_soup_list.extend(BeautifulSoup(...).find_all(...))
TaskRespond(page) ==
    /\ page + 1 \in 1..Len(fts)
    /\ fts[page + 1] = "running"
    /\ job_soup_list' = job_soup_list \o site.page[page]
    /\ fts' = [fts EXCEPT ![page + 1] = "done"]
    /\ UNCHANGED <<search_terms, site, pc, err, search, soup_base, pages,
                   requests, idx, loc, job, jobs_dict, call, ret>>

\* self.session.get(url) raises inside the task: the future keeps the
\* exception, and nothing was appended.
TaskFail(page) ==
    /\ page + 1 \in 1..Len(fts)
    /\ fts[page + 1] = "running"
    /\ fts' = [fts EXCEPT ![page + 1] = "failed"]
    /\ UNCHANGED <<search_terms, site, pc, err, search, soup_base, pages,
                   requests, job_soup_list, idx, loc, job, jobs_dict, call, ret>>

\* wait(fts, return_when=FIRST_COMPLETED)
WaitFirstCompleted(futures) ==
    \/ Len(futures) = 0
    \/ \E i \in 1..Len(futures) : futures[i] \in {"done", "failed"}

\* A join that returns only when every task has succeeded.
WaitAllSucceeded(futures) == \A i \in 1..Len(futures) : futures[i] = "done"

\* wait(fts, timeout=...) after the timeout has run out.
WaitTimedOut(futures) == TRUE

\* wait(fts): return_when = ALL_COMPLETED, no timeout.
WaitDone(futures) == \A i \in 1..Len(futures) : Finished(futures[i])

\* scrape() reading each future's result() after the wait.
AfterWaitReadsResults(futures) ==
    IF \E i \in 1..Len(futures) : futures[i] = "failed" THEN "raise" ELSE "extract"

\* What scrape() does once wait(fts) has returned: the futures' results and
\* exceptions are never read.
AfterWait(futures) == "extract"

\* The submit loop is over and wait(fts) returns.
Wait ==
    /\ pc = "submit"
    /\ Len(fts) = pages
    /\ WaitDone(fts)
    /\ IF AfterWait(fts) = "extract"
       THEN /\ pc' = "extract"
            /\ err' = err
       ELSE Abort("ConnectionError", "wait")
    /\ UNCHANGED <<search_terms, site, search, soup_base, pages, fts, requests,
                   job_soup_list, idx, loc, job, jobs_dict, call, ret>>

\* ------------------------------------------- the extraction loop: lines 74-139
\* Lines 82-88: the first exception raised, or the locals assigned.
RequiredStage(s) ==
    LET t == get_title(s)
        c == get_company(s)
        l == get_location(s)
        k == get_id(s)
    IN  IF t.exc # "none" THEN Raise(t.exc, InitLoc)
        ELSE IF c.exc # "none" THEN Raise(c.exc, InitLoc)
        ELSE IF l.exc # "none" THEN Raise(l.exc, InitLoc)
        ELSE IF k.exc # "none" THEN Raise(k.exc, InitLoc)
        ELSE Ok([InitLoc EXCEPT !.title = t.val, !.company = c.val,
                                !.location = l.val, !.key_id = k.val,
                                !.url = get_link(k.val)])

\* except AttributeError (lines 89, 95, 100)
Caught(exc) == exc = "AttributeError"

\* Tags and date in one try block: a failure of get_tags skips get_date.
OptionalStageOneTry(l, s) ==
    LET t == get_tags(s)
        d == get_date(s)
    IN  IF t.exc # "none" THEN l
        ELSE IF d.exc = "none" THEN [l EXCEPT !.tags = t.val, !.post_date = d.val]
        ELSE [l EXCEPT !.tags = t.val]

\* Lines 93-103: two try blocks, one after the other.
OptionalStage(l, s) ==
    LET t == get_tags(s)
        l1 == IF t.exc = "none" THEN [l EXCEPT !.tags = t.val] ELSE l
        d == get_date(s)
    IN  IF d.exc = "none" THEN [l1 EXCEPT !.post_date = d.val] ELSE l1

\* Lines 106-121
Job(l, s) ==
    [title |-> l.title, company |-> l.company, location |-> l.location,
     description |-> "", key_id |-> l.key_id, url |-> l.url,
     status |-> "NEW", provider |-> "indeed", short_description |-> None,
     post_date |-> l.post_date, raw |-> s, tags |-> l.tags]

\* The next fragment's required stage: lines 74-91.
ExtractRequired ==
    /\ pc = "extract"
    /\ idx < Len(job_soup_list)
    /\ LET r == RequiredStage(job_soup_list[idx + 1])
       IN  IF r.exc = "none"
           THEN /\ loc' = r.val
                /\ pc' = "optional"
                /\ UNCHANGED <<idx, err>>
           ELSE IF Caught(r.exc)
           THEN /\ idx' = idx + 1
                /\ UNCHANGED <<loc, pc, err>>
           ELSE /\ Abort(r.exc, "get_id")
                /\ UNCHANGED <<loc, idx>>
    /\ UNCHANGED <<search_terms, site, search, soup_base, pages, fts, requests,
                   job_soup_list, job, jobs_dict, call, ret>>

\* Lines 93-103
ExtractOptional ==
    /\ pc = "optional"
    /\ loc' = OptionalStage(loc, job_soup_list[idx + 1])
    /\ pc' = "init_job"
    /\ UNCHANGED <<search_terms, site, err, search, soup_base, pages, fts,
                   requests, job_soup_list, idx, job, jobs_dict, call, ret>>

\* Lines 106-121
InitJob ==
    /\ pc = "init_job"
    /\ job' = <<Job(loc, job_soup_list[idx + 1])>>
    /\ pc' = "fix_date"
    /\ UNCHANGED <<search_terms, site, err, search, soup_base, pages, fts,
                   requests, job_soup_list, idx, loc, jobs_dict, call, ret>>

\* Lines 130-139: fix the date, key the job by its id, next fragment.
FixDateAndInsert ==
    /\ pc = "fix_date"
    /\ LET j == FixDate(job[1])
       IN  jobs_dict' = DictSet(jobs_dict, j.key_id, j)
    /\ idx' = idx + 1
    /\ loc' = InitLoc
    /\ job' = <<>>
    /\ pc' = "extract"
    /\ UNCHANGED <<search_terms, site, err, search, soup_base, pages, fts,
                   requests, job_soup_list, call, ret>>

\* return jobs_dict
Return ==
    /\ pc = "extract"
    /\ idx = Len(job_soup_list)
    /\ pc' = "done"
    /\ UNCHANGED <<search_terms, site, err, search, soup_base, pages, fts,
                   requests, job_soup_list, idx, loc, job, jobs_dict, call, ret>>

Next ==
    \/ GetSearchUrl
    \/ FirstGet
    \/ GetNumPages
    \/ SubmitPage
    \/ \E page \in 0..(MaxPages - 1) : TaskStart(page)
    \/ \E page \in 0..(MaxPages - 1) : TaskRespond(page)
    \/ \E page \in 0..(MaxPages - 1) : TaskFail(page)
    \/ Wait
    \/ ExtractRequired
    \/ ExtractOptional
    \/ InitJob
    \/ FixDateAndInsert
    \/ Return

Spec == Init /\ [][Next]_vars

\* A step of the thread that called scrape().
MainStep ==
    \/ GetSearchUrl
    \/ FirstGet
    \/ GetNumPages
    \/ SubmitPage
    \/ Wait
    \/ ExtractRequired
    \/ ExtractOptional
    \/ InitJob
    \/ FixDateAndInsert
    \/ Return

\* The calling thread keeps running, a free worker takes a queued task, and
\* every self.session.get call returns or raises in the end.
SpecFair ==
    /\ Init
    /\ [][Next]_vars
    /\ WF_vars(MainStep)
    /\ \A page \in 0..(MaxPages - 1) :
          /\ WF_vars(TaskStart(page))
          /\ WF_vars(TaskRespond(page) \/ TaskFail(page))

\* ------------------------------------------------- the pure functions, called
\* Bound on the negative radii handed to convert_radius.
MaxNegRadius == 3

Calls ==
    {[fn |-> "convert_radius", a |-> r, b |-> 0] :
        r \in (0 - MaxNegRadius)..MaxRadius}
    \cup
    {[fn |-> "get_num_pages_to_scrape", a |-> n, b |-> m] :
        n \in 0..MaxTotal, m \in 0..MaxCap}

InitPure ==
    /\ ScrapeStart([radius |-> 7],
                   [marker |-> NoMarker, page |-> [p \in 0..(MaxPages - 1) |-> <<>>]])
    /\ call \in Calls
    /\ ret = <<>>

\* self.convert_radius(radius)
CallConvertRadius ==
    /\ call.fn = "convert_radius"
    /\ ret = <<>>
    /\ ret' = <<convert_radius(call.a)>>
    /\ UNCHANGED <<scrape_vars, call>>

\* self.get_num_pages_to_scrape(soup_base, max_pages) on a first page whose
\* marker announces call.a results.
CallGetNumPages ==
    /\ call.fn = "get_num_pages_to_scrape"
    /\ ret = <<>>
    /\ ret' = <<get_num_pages_to_scrape(Marker(<<call.a>>), call.b).val>>
    /\ UNCHANGED <<scrape_vars, call>>

\* self.convert_radius(...) once more, on the value the first call returned.
CallConvertRadiusAgain ==
    /\ call.fn = "convert_radius"
    /\ Len(ret) = 1
    /\ ret' = Append(ret, convert_radius(ret[1]))
    /\ UNCHANGED <<scrape_vars, call>>

NextPure ==
    \/ CallConvertRadius
    \/ CallConvertRadiusAgain
    \/ CallGetNumPages

SpecPure == InitPure /\ [][NextPure]_vars

\* ------------------------------------ get_full_description, get_search_url
\* The job page served at a job's url: the jobDescriptionText element, if
\* there, with its text.
NoDescription == [present |-> FALSE, text |-> ""]
Description(text) == [present |-> TRUE, text |-> text]

DescTexts ==
    {"", "   ", "Build things", " Build things \n", "Run ops ", "\tRun ops",
     "Ship it"}

JobPages == {NoDescription} \cup {Description(t) : t \in DescTexts}

\* str.strip() on the texts of DescTexts.
Strip(t) ==
    CASE t = "   " -> ""
      [] t = " Build things \n" -> "Build things"
      [] t = "Run ops " -> "Run ops"
      [] t = "\tRun ops" -> "Run ops"
      [] OTHER -> t

\* job_link_soup.find(id='jobDescriptionText').text.strip()
FindDescription(job_page) ==
    IF job_page.present THEN Ok(Strip(job_page.text))
    ELSE Raise("AttributeError", "")

\* Lines 202-208 with the fallback assignment left out: the field stays None.
DescriptionOrNone(job_page) ==
    LET r == FindDescription(job_page)
    IN  IF Caught(r.exc) THEN None ELSE r.val

\* Lines 202-208: the text found, or '' on AttributeError.
DescriptionOrEmpty(job_page) ==
    LET r == FindDescription(job_page)
    IN  IF Caught(r.exc) THEN "" ELSE r.val

\* Job.clean_strings: keeps the printable characters of the job's texts; the
\* texts of DescTexts are printable.
clean_strings(j) == j

\* The Job scrape() makes of a fragment whose required fields are there.
ScrapedJob(f) == FixDate(Job(OptionalStage(RequiredStage(f).val, f), f))

ScrapedJobs == {ScrapedJob(f) : f \in {F_a1, F_a2, F_b, F_c, F_d}}

Methods == {"get", "post", "put", "GET", ""}

DescCalls ==
    {[fn |-> "get_full_description", a |-> j, b |-> p] :
        j \in ScrapedJobs, p \in JobPages}

UrlCalls ==
    {[fn |-> "get_search_url", a |-> t, b |-> m] :
        t \in {[radius |-> 7], [radius |-> 250]}, m \in Methods}

\* Either get_full_description(call.a) is about to run, the job page being
\* call.b, or get_search_url(call.b) is, followed by the fetch of its url.
InitApi ==
    /\ \/ /\ call \in DescCalls
          /\ pc = "get_full_description"
          /\ job = <<call.a>>
          /\ search_terms = [radius |-> 7]
       \/ /\ call \in UrlCalls
          /\ pc = "get_search_url"
          /\ job = <<>>
          /\ search_terms = call.a
    /\ site = [marker |-> NoMarker, page |-> [p \in 0..(MaxPages - 1) |-> <<>>]]
    /\ err = NoErr
    /\ search = [radius |-> 0, limit |-> 0]
    /\ soup_base = NoMarker
    /\ pages = 0
    /\ fts = <<>>
    /\ requests = EmptyBag
    /\ job_soup_list = <<>>
    /\ idx = 0
    /\ loc = InitLoc
    /\ jobs_dict = EmptyDict
    /\ ret = <<>>

\* get_full_description, lines 197-201: self.session.get(job.url)
DescFetch ==
    /\ pc = "get_full_description"
    /\ requests' = requests (+) SetToBag({job[1].url})
    /\ \/ /\ pc' = "description"
          /\ err' = err
       \/ Abort("ConnectionError", "get_full_description")
    /\ UNCHANGED <<search_terms, site, search, soup_base, pages, fts,
                   job_soup_list, idx, loc, job, jobs_dict, call, ret>>

\* get_full_description, lines 202-209
DescParse ==
    /\ pc = "description"
    /\ job' = <<clean_strings(
                   [job[1] EXCEPT !.short_description = DescriptionOrEmpty(call.b)])>>
    /\ pc' = "returned"
    /\ UNCHANGED <<search_terms, site, err, search, soup_base, pages, fts,
                   requests, job_soup_list, idx, loc, jobs_dict, call, ret>>

\* search = self.get_search_url(method), method being call.b
CallGetSearchUrl ==
    /\ pc = "get_search_url"
    /\ call.fn = "get_search_url"
    /\ LET r == get_search_url(search_terms, call.b)
       IN  IF r.exc = "none"
           THEN /\ search' = r.val
                /\ pc' = "session_get"
                /\ err' = err
           ELSE /\ Abort(r.exc, "get_search_url")
                /\ search' = search
    /\ UNCHANGED <<search_terms, site, soup_base, pages, fts, requests,
                   job_soup_list, idx, loc, job, jobs_dict, call, ret>>

NextApi ==
    \/ DescFetch
    \/ DescParse
    \/ CallGetSearchUrl
    \/ FirstGet

SpecApi == InitApi /\ [][NextApi]_vars

\* --------------------------------------- a search of more pages than workers
\* Pages of the search that fills the pool and queues behind it.
MaxPoolPages == 9

\* The site announces MaxPoolPages pages of results, the first with two
\* listings.
InitPool ==
    /\ ScrapeStart([radius |-> 7],
                   [marker |-> Marker(<<MaxPoolPages * max_results_per_page>>),
                    page |-> [p \in 0..(MaxPoolPages - 1) |->
                                 IF p = 0 THEN <<F_b, F_c>> ELSE <<>>]])
    /\ call = NoCall
    /\ ret = <<>>

NextPool ==
    \/ GetSearchUrl
    \/ FirstGet
    \/ GetNumPages
    \/ SubmitPage
    \/ \E page \in 0..(MaxPoolPages - 1) : TaskStart(page)
    \/ \E page \in 0..(MaxPoolPages - 1) : TaskRespond(page)
    \/ \E page \in 0..(MaxPoolPages - 1) : TaskFail(page)
    \/ Wait
    \/ ExtractRequired
    \/ ExtractOptional
    \/ InitJob
    \/ FixDateAndInsert
    \/ Return

SpecPool == InitPool /\ [][NextPool]_vars

\* ------------------------------------------------------------------ claims
\* scrape() is in, or has left through, its extraction loop.
Extracting ==
    \/ pc \in {"extract", "optional", "init_job", "fix_date", "done"}
    \/ pc = "aborted" /\ err.at = "get_id"

SomeFetchFailed == \E i \in 1..Len(fts) : fts[i] = "failed"

\* The number of times x occurs in the sequence q.
Occurrences(q, x) == Cardinality({i \in 1..Len(q) : q[i] = x})

RECURSIVE SoupsOfDonePages(_)
\* The fragments of the first n pages whose fetch task is done, in page order.
SoupsOfDonePages(n) ==
    IF n = 0 THEN <<>>
    ELSE SoupsOfDonePages(n - 1) \o
         (IF n <= Len(fts) /\ fts[n] = "done" THEN site.page[n - 1] ELSE <<>>)

C2_JoinAllBeforeExtraction ==
    Extracting => /\ Len(fts) = pages
                  /\ \A i \in 1..Len(fts) : fts[i] \in {"done", "failed"}

\* C2 witness: the first fragment is in extraction after two tasks finished.
C2_Witness ==
    /\ pc = "optional"
    /\ idx = 0
    /\ Len(fts) = 2

\* The urls requested by the fetch phase: those carrying a start parameter.
IsPageRequest(u) == u.start # <<>>

\* C3: the fetch phase requests no offset outside {p * 50 : p in [0, pages)},
\* none more than once, and once all tasks have finished each exactly once.
C3_EachOffsetOnce ==
    /\ \A u \in BagToSet(requests) :
          IsPageRequest(u) =>
             /\ u.base = search
             /\ \E p \in 0..(pages - 1) : u.start = <<p * max_results_per_page>>
             /\ CopiesIn(u, requests) = 1
    /\ Extracting =>
          \A p \in 0..(pages - 1) :
             CopiesIn(Url(search, <<p * max_results_per_page>>), requests) = 1

\* C3 witness: both pages of a two-page search were requested, joined.
C3_Witness ==
    /\ pc = "extract"
    /\ pages = 2
    /\ CopiesIn(Url(search, <<0>>), requests) = 1
    /\ CopiesIn(Url(search, <<max_results_per_page>>), requests) = 1

\* The required elements of a fragment are all there: title, company,
\* location, and a save-job link in which the id is found.
RequiredOk(f) ==
    /\ f.title # None
    /\ f.company # None
    /\ f.location # None
    /\ f.link.present
    /\ Len(f.link.ids) > 0

KeyOf(f) == f.link.ids[1]

\* Positions of job_soup_list the loop has finished with and that yield key k.
Yielding(k) ==
    {i \in 1..idx : RequiredOk(job_soup_list[i]) /\ KeyOf(job_soup_list[i]) = k}

Last(S) == CHOOSE i \in S : \A j \in S : j <= i

\* C4 (as claimed): a fragment on which a required extraction (title,
\* company, location or key_id) fails contributes no entry, and the loop
\* goes on: the scrape is never aborted by it.
C4_RequiredFailureDiscards ==
    \A i \in 1..Len(job_soup_list) :
        (Extracting /\ i <= idx + 1 /\ ~RequiredOk(job_soup_list[i])) =>
            /\ pc # "aborted"
            /\ \A k \in DOMAIN jobs_dict : jobs_dict[k].raw # job_soup_list[i]

\* The record the spec derives from a fragment whose required fields are there.
DerivedRecord(f) ==
    [title |-> f.title, company |-> f.company, location |-> f.location,
     description |-> "", key_id |-> KeyOf(f),
     url |-> [path |-> "/viewjob", jk |-> KeyOf(f)],
     status |-> "NEW", provider |-> "indeed", short_description |-> None,
     post_date |-> CASE f.date = "today" -> "now"
                     [] f.date = "3 days ago" -> "now - 3 days"
                     [] f.date = "30+ days ago" -> "now - 30 days"
                     [] OTHER -> "1970-01-01",
     raw |-> f,
     tags |-> IF f.tags.present THEN f.tags.items ELSE <<>>]

\* C5: the result maps each key_id yielded so far to one record, the one
\* derived from the last processed fragment yielding that key_id.
C5_LastWriteWins ==
    /\ DOMAIN jobs_dict =
          {KeyOf(job_soup_list[i]) :
              i \in {j \in 1..idx : RequiredOk(job_soup_list[j])}}
    /\ \A k \in DOMAIN jobs_dict :
          jobs_dict[k] = DerivedRecord(job_soup_list[Last(Yielding(k))])

\* C5 witness: a scrape returned after two different fragments yielded the
\* same key_id.
C5_Witness ==
    /\ pc = "done"
    /\ \E i, j \in 1..idx :
          /\ i < j
          /\ RequiredOk(job_soup_list[i])
          /\ RequiredOk(job_soup_list[j])
          /\ KeyOf(job_soup_list[i]) = KeyOf(job_soup_list[j])
          /\ job_soup_list[i] # job_soup_list[j]

AllFetched ==
    /\ Len(fts) = pages
    /\ \A i \in 1..Len(fts) : fts[i] = "done"

\* C6: when every page fetch succeeded, the keys of the returned result are
\* the key_ids of the collected fragments whose required fields are there;
\* two pages of two fragments with distinct key_ids, one without a title,
\* give three entries.
C6_EndToEndKeys ==
    (pc = "done" /\ AllFetched) =>
        /\ Len(job_soup_list) = Len(SoupsOfDonePages(pages))
        /\ DOMAIN jobs_dict =
              {KeyOf(job_soup_list[i]) :
                  i \in {j \in 1..Len(job_soup_list) : RequiredOk(job_soup_list[j])}}
        /\ (pages = 2 /\ site.page[0] = <<F_a1, F_notitle>>
                      /\ site.page[1] = <<F_b, F_c>>)
              => Cardinality(DOMAIN jobs_dict) = 3

\* C6 witness: the two-page, four-fragment scrape returned three entries.
C6_Witness ==
    /\ pc = "done"
    /\ AllFetched
    /\ pages = 2
    /\ site.page[0] = <<F_a1, F_notitle>>
    /\ site.page[1] = <<F_b, F_c>>
    /\ Len(job_soup_list) = 4
    /\ Cardinality(DOMAIN jobs_dict) = 3

\* A date text of no recognised relative-date form.
UnparsableDate(f) == f.date = "last Tuesday-ish"

\* C7: a fragment whose date text is unparsable still gets its record into
\* the result, with post_date 1970-01-01 (as long as no later fragment
\* replaces the record under the same key_id).
C7_UnparsableDateKept ==
    \A i \in 1..idx :
        LET f == job_soup_list[i]
        IN  (RequiredOk(f) /\ UnparsableDate(f) /\ i = Last(Yielding(KeyOf(f)))) =>
                /\ KeyOf(f) \in DOMAIN jobs_dict
                /\ jobs_dict[KeyOf(f)].raw = f
                /\ jobs_dict[KeyOf(f)].post_date = "1970-01-01"

\* C7 witness: a returned result holds the record of a fragment with an
\* unparsable date text.
C7_Witness ==
    /\ pc = "done"
    /\ "a" \in DOMAIN jobs_dict
    /\ jobs_dict["a"].raw = F_a2
    /\ jobs_dict["a"].post_date = "1970-01-01"

\* C8: after the optional stage the tags and the raw post date are each
\* what the fragment has, whatever happened to the other: tags missing give
\* the empty sequence, date text missing leaves post_date None; the Job is
\* built from them and the scrape is not aborted.
C8_OptionalFieldsIndependent ==
    (pc \in {"init_job", "fix_date"}) =>
        LET f == job_soup_list[idx + 1]
        IN  /\ loc.tags = (IF f.tags.present THEN f.tags.items ELSE <<>>)
            /\ loc.post_date = f.date
            /\ pc = "fix_date" =>
                  /\ job[1].tags = loc.tags
                  /\ job[1].post_date = loc.post_date
                  /\ job[1].key_id = KeyOf(f)

\* C8 witness: a Job built from a fragment without tags but with a date text.
C8_Witness ==
    /\ pc = "fix_date"
    /\ ~job_soup_list[idx + 1].tags.present
    /\ job_soup_list[idx + 1].date # None
    /\ job[1].tags = <<>>
    /\ job[1].post_date = job_soup_list[idx + 1].date

\* The least k with k * 50 >= n.
CeilingOf(n) ==
    CHOOSE k \in 0..n :
        /\ k * max_results_per_page >= n
        /\ \A j \in 0..n : j * max_results_per_page >= n => k <= j

Min(a, b) == IF a <= b THEN a ELSE b

\* C9: get_num_pages_to_scrape returns ceil(total_count / 50) when
\* max_pages = 0 and the smaller of that and max_pages when max_pages > 0;
\* 237 results are 5 pages.
C9_PageCount ==
    (call.fn = "get_num_pages_to_scrape" /\ ret # <<>>) =>
        /\ call.b = 0 => ret[1] = CeilingOf(call.a)
        /\ call.b > 0 => ret[1] = Min(CeilingOf(call.a), call.b)
        /\ (call.a = 237 /\ call.b = 0) => ret[1] = 5

\* C9 witness: the call with 237 results and no cap returned 5.
C9_Witness ==
    /\ call.fn = "get_num_pages_to_scrape"
    /\ call.a = 237
    /\ call.b = 0
    /\ ret = <<5>>

Boundaries == {0, 5, 10, 15, 25, 50, 100}

C11_RadiusIdempotent ==
    (call.fn = "convert_radius" /\ Len(ret) >= 1) =>
        /\ call.a \in Boundaries => ret[1] = call.a
        /\ Len(ret) = 2 => ret[2] = ret[1]

\* C11 witness: 100 was converted to 100, and that to 100 again.
C11_Witness ==
    /\ call.fn = "convert_radius"
    /\ call.a = 100
    /\ ret = <<100, 100>>

\* C12: when the first page carries no result-count marker, the page-count
\* step raises and scrape() aborts there: no page-fetch task is ever
\* submitted, no page is requested by the pool, no fragment is extracted and
\* nothing is returned.
C12_NoMarkerAbortsBeforeFetch ==
    ~site.marker.present =>
        /\ pc \in {"get_search_url", "session_get", "get_num_pages", "aborted"}
        /\ pc = "aborted" => err.at \in {"session_get", "get_num_pages_to_scrape"}
        /\ fts = <<>>
        /\ \A u \in BagToSet(requests) : ~IsPageRequest(u)
        /\ job_soup_list = <<>>
        /\ idx = 0
        /\ DOMAIN jobs_dict = {}

\* C12 witness: scrape() aborted in get_num_pages_to_scrape on a first page
\* without the marker, having fetched that page only.
C12_Witness ==
    /\ ~site.marker.present
    /\ pc = "aborted"
    /\ err = [exc |-> "AttributeError", at |-> "get_num_pages_to_scrape"]
    /\ BagCardinality(requests) = 1
    /\ fts = <<>>

\* C13: get_full_description fetches the job's url exactly once, and when
\* the fetched page has no description element it returns normally with the
\* job's short_description (and description) the empty string; only the
\* fetch itself can raise.
C13_DescriptionFallback ==
    call.fn = "get_full_description" =>
        /\ pc = "aborted" => err = [exc |-> "ConnectionError",
                                    at |-> "get_full_description"]
        /\ pc \in {"description", "returned", "aborted"} =>
              /\ BagCardinality(requests) = 1
              /\ CopiesIn(call.a.url, requests) = 1
        /\ (pc = "returned" /\ ~call.b.present) =>
              /\ job[1].short_description = ""
              /\ job[1].description = ""

\* C13 witness: get_full_description returned for a job whose page has no
\* description element.
C13_Witness ==
    /\ call.fn = "get_full_description"
    /\ ~call.b.present
    /\ pc = "returned"
    /\ job[1].short_description = ""
    /\ BagCardinality(requests) = 1

\* C14: get_search_url called with a method other than 'get' raises, and no
\* request has gone through the session when it does.
C14_BadMethodRaisesBeforeRequest ==
    (call.fn = "get_search_url" /\ call.b # "get") =>
        /\ requests = EmptyBag
        /\ pc \in {"get_search_url", "aborted"}
        /\ pc = "aborted" =>
              /\ err.at = "get_search_url"
              /\ err.exc = (IF call.b = "post" THEN "NotImplementedError"
                            ELSE "ValueError")

\* C14 witness: get_search_url('put') raised ValueError with no request made.
C14_Witness ==
    /\ call.fn = "get_search_url"
    /\ call.b = "put"
    /\ pc = "aborted"
    /\ err = [exc |-> "ValueError", at |-> "get_search_url"]
    /\ requests = EmptyBag

RECURSIVE SoupsOfPages(_)
\* The fragments of pages 0..n-1 of the site, in page order.
SoupsOfPages(n) ==
    IF n = 0 THEN <<>> ELSE SoupsOfPages(n - 1) \o site.page[n - 1]

\* C15: once every page-fetch task has completed successfully, the shared
\* collection holds each fragment of each page of range(0, pages) exactly as
\* often as the pages do: none lost, none twice, its size the sum of the
\* pages' fragment counts.
C15_NoLostOrDuplicatedFragments ==
    AllFetched =>
        /\ Len(job_soup_list) = Len(SoupsOfPages(pages))
        /\ \A i \in 1..Len(SoupsOfPages(pages)) :
              Occurrences(job_soup_list, SoupsOfPages(pages)[i])
                  = Occurrences(SoupsOfPages(pages), SoupsOfPages(pages)[i])

\* C15 witness: both tasks of a two-page search are done, the four
\* fragments collected, scrape() still at the join.
C15_Witness ==
    /\ pc = "submit"
    /\ pages = 2
    /\ AllFetched
    /\ Len(site.page[0]) = 2
    /\ Len(site.page[1]) = 2
    /\ Len(job_soup_list) = 4

\* Pages whose fetch task is done.
DonePages == {p \in 0..(Len(fts) - 1) : fts[p + 1] = "done"}

\* The orders in which the pages of D can have completed.
Orders(D) ==
    {o \in [1..Cardinality(D) -> D] :
        \A i, j \in 1..Cardinality(D) : o[i] = o[j] => i = j}

RECURSIVE SoupsInOrder(_, _)
\* The fragments of pages o[1], ..., o[n], each page in its listing order.
SoupsInOrder(o, n) ==
    IF n = 0 THEN <<>> ELSE SoupsInOrder(o, n - 1) \o site.page[o[n]]

\* C16: the collection is, for some order of the completed pages, those
\* pages' fragments one page after the other, each page in its own listing
\* order: two fragments of a page keep their order in the collection.
C16_ListingOrderWithinPage ==
    \E o \in Orders(DonePages) :
        job_soup_list = SoupsInOrder(o, Cardinality(DonePages))

\* C16 witness: the fragments of page 1 were collected before those of
\* page 0, each pair in its listing order.
C16_Witness ==
    /\ pages = 2
    /\ AllFetched
    /\ Len(site.page[0]) = 2
    /\ Len(site.page[1]) = 2
    /\ site.page[0] # site.page[1]
    /\ job_soup_list = site.page[1] \o site.page[0]

Pending == {i \in 1..Len(fts) : fts[i] = "pending"}

\* C17: never more than max_workers (8) page-fetch tasks are executing, the
\* tasks beyond that staying queued; the extraction loop, aggregation
\* included, runs with no task executing or queued.
C17_BoundedPool ==
    /\ Cardinality(Running) <= max_workers
    /\ Extracting => (Running = {} /\ Pending = {})

\* C17 witness: eight tasks are executing and the ninth is queued.
C17_Witness ==
    /\ Cardinality(Running) = 8
    /\ Pending # {}
    /\ Len(fts) = 9

\* The task fetching page p has been submitted and has not completed.
Hung(p) == p + 1 <= Len(fts) /\ fts[p + 1] \in {"pending", "running"}

\* C18: if the task fetching some page never completes, scrape() never
\* begins its extraction loop and never returns, whatever the other tasks do.
C18_HungFetchStallsScrape ==
    \A p \in 0..(MaxPages - 1) : (<>[]Hung(p)) => [](~Extracting /\ pc # "done")

\* C18 witness: scrape() is at the join of a two-page search, one task done
\* and the other still running.
C18_Witness ==
    /\ pc = "submit"
    /\ pages = 2
    /\ Len(fts) = 2
    /\ fts[1] = "done"
    /\ fts[2] = "running"

\* C19: with the calling thread and the pool's workers scheduled fairly and
\* every fetch call returning or failing in the end, scrape() eventually
\* either has returned, its loop having passed over every collected fragment
\* (one fragment at a time, none again), or has aborted.
C19_ScrapeTerminates ==
    /\ <>(pc = "aborted" \/ (pc = "done" /\ idx = Len(job_soup_list)))
    /\ [][idx' = idx \/ (idx' = idx + 1 /\ idx' <= Len(job_soup_list))]_vars

\* C19 witness: scrape() returned after passing over its four fragments.
C19_Witness ==
    /\ pc = "done"
    /\ Len(job_soup_list) = 4
    /\ idx = 4

\* C20 (as claimed): the pool fetches only the pages after the first, so a
\* pass that finds N pages has issued N fetches in all when it extracts, none
\* of them by the pool for offset 0.
C20_OnlyRemainingPagesFetched ==
    (Extracting /\ pages >= 1) =>
        /\ BagCardinality(requests) = pages
        /\ CopiesIn(Url(search, <<0>>), requests) = 0

\* C20 (amended): the pool fetches every page of range(0, pages), the first
\* page again with start=0: a pass that finds N pages has issued N + 1
\* fetches when it extracts, the bare search url once and each offset once;
\* the fragments come from the pool's fetches only, each page once.
C20_FirstPageFetchedTwice ==
    Extracting =>
        /\ BagCardinality(requests) = pages + 1
        /\ CopiesIn(Url(search, <<>>), requests) = 1
        /\ pages >= 1 => CopiesIn(Url(search, <<0>>), requests) = 1
        /\ Len(job_soup_list) = Len(SoupsOfDonePages(pages))

\* C20 witness: a two-page pass returned after three fetches.
C20_Witness ==
    /\ pc = "done"
    /\ pages = 2
    /\ AllFetched
    /\ BagCardinality(requests) = 3
    /\ Len(job_soup_list) = Len(site.page[0]) + Len(site.page[1])

====
